---- MODULE Spec2Model ----
(***************************************************************************)
(* The socket handlers of the chat backend.                                *)
(*                                                                         *)
(* Two programs of the repository are modelled over one socket.io layer:   *)
(*   - src/server.js: activeRooms, whose rooms list display names and      *)
(*     carry the call state (specification Spec);                          *)
(*   - src/unnamed/part_001 (setupSocket): rooms, whose rooms list         *)
(*     {id, username} pairs (specification SpecSetup).                     *)
(* Every handler is one action.  `out` holds what the handler that ran     *)
(* last emitted, in order, each emission with the set of sockets that      *)
(* receive it.  The specifications share the actions and differ in the     *)
(* listeners they run: SpecCall (calls), SpecRegistry (register and        *)
(* lookups), SpecSignal (signalling and mesh rooms), SpecPayload (inline   *)
(* payloads), SpecLike (likes), SpecEdit and SpecDelete (events without    *)
(* listener), SpecInterest (interest rooms), SpecQuery (the two queries),  *)
(* and SpecSteps, which runs the 'callAccepted' listener statement by      *)
(* statement.                                                              *)
(***************************************************************************)
EXTENDS Integers, Sequences, FiniteSets, TLC

\* ------------------------------------------------------------------ bounds
\* socket ids; each id is used by one connection
Sockets == {"s1", "s2"}
\* display names a client may send
Users == {"ann", "bob"}
\* the values generateRoomCode can return
Codes == {"c1", "c2"}
\* the strings a client may send in a roomCode field: a generated code or
\* a socket id (every socket is in the adapter room named by its own id)
Names == Codes \cup Sockets
\* most messages a room store takes in
MaxStored == 2
\* most entries the user lists of setupSocket's rooms hold together
MaxListed == 3
\* the room names crypto.randomBytes gives the interest rooms
\* (server.js:1254)
InterestRooms == {"r1", "r2"}
\* most 'join' events of one socket
MaxJoins == 2

VARIABLES
    connected,        \* socket ids with a live connection
    closed,           \* socket ids whose connection has ended
    adapter,          \* io.sockets.adapter.rooms: room name -> socket ids
    out,              \* emissions of the last handler, in order
    running,          \* FALSE once a handler threw an uncaught exception
    activeRooms,      \* server.js:150
    userSocketMap,    \* server.js:148
    socketToUserMap,  \* server.js:149
    rooms,            \* part_001:11
    sockRoomCode,     \* part_001:63, socket.roomCode of each socket
    accepted,         \* history variable: per room code, the messages
                      \* sendMessage stored under it, in order; no handler
                      \* reads it
    meshRooms,        \* server.js:1628
    meshJoins,        \* per socket, the rooms of its 'join' events, in
                      \* order: each registered a 'signal' and a
                      \* 'disconnect' listener (server.js:1646, 1651)
    listener,         \* the listener the event loop is running statement
                      \* by statement and the statement it is at; "idle"
                      \* between listeners
    interestToRoomMap, \* server.js:63
    interestJoins     \* history variable: per socket, the interest rooms
                      \* joinInterestRoom put it in and it has not left,
                      \* each with the interests it named; no handler
                      \* reads it

regVars == <<userSocketMap, socketToUserMap>>
serverVars == <<activeRooms, userSocketMap, socketToUserMap, accepted>>
setupVars == <<rooms, sockRoomCode>>
meshVars == <<meshRooms, meshJoins>>
interestVars == <<interestToRoomMap, interestJoins>>
loopVars == <<listener>>
vars == <<connected, closed, adapter, out, running, activeRooms,
          userSocketMap, socketToUserMap, rooms, sockRoomCode, accepted,
          meshRooms, meshJoins, listener, interestToRoomMap, interestJoins>>

\* ------------------------------------------------------------ socket.io
Undefined == "undefined"
Null == "null"

\* the sockets in an adapter room; a name no socket joined has none
SocketsIn(ad, room) == IF room \in DOMAIN ad THEN ad[room] ELSE {}
\* socket.emit(ev, data)
EmitSelf(s, ev, data) == [ev |-> ev, to |-> {s}, data |-> data]
\* io.in(room).emit(ev, data), io.to(room).emit(ev, data)
EmitIn(ad, room, ev, data) == [ev |-> ev, to |-> SocketsIn(ad, room), data |-> data]
\* socket.to(room).emit(ev, data)
EmitTo(ad, s, room, ev, data) == [ev |-> ev, to |-> SocketsIn(ad, room) \ {s}, data |-> data]
\* socket.join(room)
Join(ad, s, room) == [ad EXCEPT ![room] = @ \cup {s}]
\* the rooms of a socket are left before its 'disconnect' listeners run
LeaveAll(ad, s) == [n \in DOMAIN ad |-> ad[n] \ {s}]

\* the emissions of a handler that reached some socket
Delivered(o) == SelectSeq(o, LAMBDA e : e.to # {})

\* Array.includes(x)
Includes(seq, x) == \E i \in 1..Len(seq) : seq[i] = x
\* Array.filter(y => y !== x)
Filter(seq, x) == SelectSeq(seq, LAMBDA y : y # x)
\* how often x occurs in seq
Count(seq, x) == Cardinality({i \in 1..Len(seq) : seq[i] = x})

\* ---------------------------------------------------- Map and objects
EmptyMap == [k \in {} |-> Null]
\* Map.has(k)
Has(m, k) == k \in DOMAIN m
\* Map.set(k, v); also obj[k] = v on an object
MapSet(m, k, v) == [x \in DOMAIN m \cup {k} |-> IF x = k THEN v ELSE m[x]]
\* Map.delete(k)
MapDelete(m, k) == [x \in DOMAIN m \ {k} |-> m[x]]
\* obj.f || dflt, for a property whose defined values are truthy or dflt
OrElse(obj, f, dflt) == IF f \in DOMAIN obj THEN obj[f] ELSE dflt

\* no listener is running
Idle == [at |-> "idle"]

Init ==
    /\ connected = {}
    /\ closed = {}
    /\ adapter = [n \in Names \cup InterestRooms |-> {}]
    /\ out = <<>>
    /\ running = TRUE
    /\ activeRooms = EmptyMap
    /\ userSocketMap = <<>>
    /\ socketToUserMap = EmptyMap
    /\ rooms = EmptyMap
    /\ sockRoomCode = [s \in Sockets |-> Undefined]
    /\ accepted = [c \in Names |-> <<>>]
    /\ meshRooms = EmptyMap
    /\ meshJoins = [s \in Sockets |-> <<>>]
    /\ listener = Idle
    /\ interestToRoomMap = EmptyMap
    /\ interestJoins = [s \in Sockets |-> EmptyMap]

\* io.on('connection'): a new socket is in the room named by its id
Connect(s) ==
    /\ running
    /\ s \notin connected \cup closed
    /\ connected' = connected \cup {s}
    /\ adapter' = Join(adapter, s, s)
    /\ out' = <<>>
    /\ UNCHANGED <<closed, running, serverVars, setupVars, interestVars, meshVars, loopVars>>

\* --------------------------------------------------------- src/server.js

\* generateRoomCode (server.js:74): Math.random decides the code, and any
\* code may come again
generateRoomCode == Codes

\* the first entry of userSocketMap, in insertion order, whose value is s;
\* 0 when there is none (server.js:1346-1347: the loop names the key userId
\* and the value socketId, the map is keyed by socket id)
FirstWithValue(m, s) ==
    IF \E i \in 1..Len(m) : m[i].value = s
    THEN CHOOSE i \in 1..Len(m) :
            m[i].value = s /\ \A j \in 1..(i - 1) : m[j].value # s
    ELSE 0

\* the entries of m but the i-th
DropAt(m, i) == SubSeq(m, 1, i - 1) \o SubSeq(m, i + 1, Len(m))

\* the 'disconnect' listeners that the 'join' events of s registered, run
\* in order on the table mr (server.js:1651-1655): what they leave of
\* the table and what they emit
MeshCleanup(mr, ad, s, joins) ==
    LET RECURSIVE Run(_, _)
        Run(m, js) ==
            IF js = <<>>
            THEN [rooms |-> m, out |-> <<>>]
            ELSE LET room == Head(js)
                     list == Filter(OrElse(m, room, <<>>), s)
                     rest == Run(IF Len(list) = 0
                                 THEN MapDelete(m, room)
                                 ELSE MapSet(m, room, list),
                                 Tail(js))
                 IN  [rooms |-> rest.rooms,
                      out |-> <<EmitIn(ad, room, "user-count", [count |-> Len(list)])>>
                              \o rest.out]
    IN  Run(mr, joins)

\* the 'disconnect' event of a socket: socket.on('disconnect')
\* (server.js:1342-1354), then the listeners of its 'join' events
\* (server.js:1651-1655)
Disconnect(s) ==
    /\ running
    /\ s \in connected
    /\ connected' = connected \ {s}
    /\ closed' = closed \cup {s}
    /\ adapter' = LeaveAll(adapter, s)
    /\ LET i == FirstWithValue(userSocketMap, s) IN
        IF i # 0
        THEN /\ userSocketMap' = DropAt(userSocketMap, i)
             /\ socketToUserMap' = MapDelete(socketToUserMap, s)
        ELSE UNCHANGED <<userSocketMap, socketToUserMap>>
    /\ LET after == MeshCleanup(meshRooms, adapter', s, meshJoins[s]) IN
        /\ meshRooms' = after.rooms
        /\ out' = after.out
    /\ UNCHANGED <<running, activeRooms, accepted, setupVars, meshJoins, loopVars, interestVars>>

\* a set that adds an entry whether or not the key is present
SetEntryAppend(m, k, v) == Append(m, [key |-> k, value |-> v])

\* Map.set(k, v) on a map kept in insertion order: a key that is present
\* keeps its place
SetEntry(m, k, v) ==
    IF \E i \in 1..Len(m) : m[i].key = k
    THEN [i \in 1..Len(m) |-> IF m[i].key = k THEN [key |-> k, value |-> v] ELSE m[i]]
    ELSE Append(m, [key |-> k, value |-> v])

\* socket.on('register') (server.js:1325-1329)
Register(s, username) ==
    /\ running
    /\ s \in connected
    /\ userSocketMap' = SetEntry(userSocketMap, s, username)
    /\ socketToUserMap' = MapSet(socketToUserMap, s, username)
    /\ out' = <<>>
    /\ UNCHANGED <<connected, closed, adapter, running, activeRooms, accepted, setupVars, interestVars, meshVars, loopVars>>

\* userData.username (server.js:1612): userData is the value register
\* stored, a string, and a string has no property 'username'
UsernameProperty(userData) == Undefined

\* socket.on('getSocketId') (server.js:1609-1618); username is Undefined
\* when the payload has no such field
GetSocketId(s, username) ==
    /\ running
    /\ s \in connected
    /\ LET hits == {i \in 1..Len(userSocketMap) :
                        UsernameProperty(userSocketMap[i].value) = username}
           socketId == IF hits # {}
                       THEN userSocketMap[CHOOSE i \in hits : \A j \in hits : i <= j].key
                       ELSE Null
       IN  out' = <<EmitSelf(s, "getSocketId:callback", [socketId |-> socketId])>>
    /\ UNCHANGED <<connected, closed, adapter, running, serverVars, setupVars, interestVars, meshVars, loopVars>>

\* socket.on('getUsername') (server.js:1621-1624)
GetUsername(s, socketId) ==
    /\ running
    /\ s \in connected
    /\ out' = <<EmitSelf(s, "getUsername:callback",
                         [username |-> OrElse(socketToUserMap, socketId, Undefined)])>>
    /\ UNCHANGED <<connected, closed, adapter, running, serverVars, setupVars, interestVars, meshVars, loopVars>>

\* the room createRoom stores (server.js:1361-1365)
NewRoom(code, username) ==
    [name |-> code, users |-> <<username>>, messages |-> <<>>]

\* socket.on('createRoom') (server.js:1357-1372)
\* (roomCode is what generateRoomCode returned)
CreateRoom(s, username, roomCode) ==
    /\ running
    /\ s \in connected
    /\ roomCode \in generateRoomCode
    /\ activeRooms' = MapSet(activeRooms, roomCode, NewRoom(roomCode, username))
    /\ adapter' = Join(adapter, s, roomCode)
    /\ out' = <<EmitSelf(s, "createRoom:callback", roomCode)>>
    /\ UNCHANGED <<connected, closed, running, regVars, accepted, setupVars, interestVars, meshVars, loopVars>>

\* room.users after joinRoom (server.js:1390-1392)
AddUser(users, username) ==
    IF Includes(users, username) THEN users ELSE Append(users, username)

\* io.emit in place of socket.emit: the error goes to every connection
JoinErrorToAll(s) ==
    <<[ev |-> "joinError", to |-> connected, data |-> "Room not found"]>>

\* the answer to a joinRoom on a code without room (server.js:1381)
JoinError(s) == <<EmitSelf(s, "joinError", "Room not found")>>

\* socket.on('joinRoom') (server.js:1375-1408)
JoinRoom(s, roomCode, username) ==
    /\ running
    /\ s \in connected
    /\ IF ~Has(activeRooms, roomCode)
       THEN /\ out' = JoinError(s)
            /\ UNCHANGED <<adapter, activeRooms>>
       ELSE LET room == activeRooms[roomCode]
                users == AddUser(room.users, username)
                ad == Join(adapter, s, roomCode)
            IN  /\ adapter' = ad
                /\ activeRooms' = [activeRooms EXCEPT ![roomCode].users = users]
                /\ out' = << EmitSelf(s, "roomHistory", OrElse(room, "messages", <<>>)),
                             EmitIn(ad, roomCode, "userJoined",
                                    [username |-> username, users |-> users]),
                             EmitIn(ad, roomCode, "roomUsers",
                                    [room |-> roomCode, users |-> users]) >>
    /\ UNCHANGED <<connected, closed, running, regVars, accepted, setupVars, interestVars, meshVars, loopVars>>

\* the messages a client may send
Messages ==
    { [roomCode |-> c, username |-> b[1], text |-> b[2], attachment |-> b[3], audio |-> b[4]] :
        c \in Names,
        b \in { <<"ann", "", Null, Null>>, <<"bob", "hi", Null, "voice">> } }

\* the messages the histories of a store hold together
Stored(store) ==
    LET RECURSIVE Sum(_)
        Sum(S) == IF S = {} THEN 0
                  ELSE LET c == CHOOSE x \in S : TRUE
                       IN  Len(OrElse(store[c], "messages", <<>>)) + Sum(S \ {c})
    IN  Sum(DOMAIN store)

\* the messages sendMessage has stored so far
AcceptedCount == Stored([c \in Names |-> [messages |-> accepted[c]]])

\* a message with empty text, no attachment and no audio
IsEmptyMessage(m) == m.text = "" /\ m.attachment = Null /\ m.audio = Null

\* room.messages after sendMessage (server.js:1417-1420)
PushMessage(room, message) ==
    MapSet(room, "messages", Append(OrElse(room, "messages", <<>>), message))

\* socket.on('sendMessage') (server.js:1411-1425)
SendMessage(s, message) ==
    /\ running
    /\ s \in connected
    /\ IF Has(activeRooms, message.roomCode)
       THEN /\ AcceptedCount < MaxStored
            /\ activeRooms' = [activeRooms EXCEPT
                    ![message.roomCode] = PushMessage(@, message)]
            /\ accepted' = [accepted EXCEPT ![message.roomCode] = Append(@, message)]
       ELSE UNCHANGED <<activeRooms, accepted>>
    /\ out' = <<EmitIn(adapter, message.roomCode, "receiveMessage", message)>>
    /\ UNCHANGED <<connected, closed, adapter, running, regVars, setupVars, interestVars, meshVars, loopVars>>

\* room.messages.find(m => m.id === msgId): the index of the first stored
\* message with that id, 0 when there is none (server.js:1309)
FindMessage(messages, msgId) ==
    LET found == {i \in 1..Len(messages) : OrElse(messages[i], "id", Undefined) = msgId}
    IN  IF found = {} THEN 0 ELSE CHOOSE i \in found : \A j \in found : i <= j

\* msg.likes after a like by username (server.js:1312-1318)
Liked(likes, username) ==
    IF ~Includes(likes, username)
    THEN Append(likes, username)
    ELSE SelectSeq(likes, LAMBDA u : u # username)

\* socket.on('likeInterestMessage') (server.js:1305-1322)
LikeInterestMessage(s, roomName, msgId, username) ==
    /\ running
    /\ s \in connected
    /\ IF /\ Has(activeRooms, roomName)
          /\ Has(activeRooms[roomName], "messages")
          /\ FindMessage(activeRooms[roomName].messages, msgId) # 0
       THEN LET i == FindMessage(activeRooms[roomName].messages, msgId)
                likes == Liked(OrElse(activeRooms[roomName].messages[i], "likes", <<>>),
                               username)
            IN  /\ activeRooms' = [activeRooms EXCEPT ![roomName].messages[i] =
                                      MapSet(@, "likes", likes)]
                /\ out' = <<EmitIn(adapter, roomName, "interestMessageLiked",
                                   [msgId |-> msgId, likes |-> likes])>>
       ELSE /\ out' = <<>>
            /\ UNCHANGED activeRooms
    /\ UNCHANGED <<connected, closed, adapter, running, regVars, accepted, setupVars, interestVars, meshVars, loopVars>>

\* a client emits 'editMessage': io.on('connection') registers no
\* listener under that name (server.js:1233-1625), so the event is
\* dropped; nothing is stored and nothing is emitted
EditMessage(s, roomCode, messageId, newText) ==
    /\ running
    /\ s \in connected
    /\ out' = <<>>
    /\ UNCHANGED <<connected, closed, adapter, running, serverVars, setupVars, interestVars, meshVars, loopVars>>

\* a client emits 'deleteMessage': no listener is registered under that
\* name either (server.js:1233-1625)
DeleteMessage(s, roomCode, messageId) ==
    /\ running
    /\ s \in connected
    /\ out' = <<>>
    /\ UNCHANGED <<connected, closed, adapter, running, serverVars, setupVars, interestVars, meshVars, loopVars>>

\* -------------------------------------------- server.js, interest rooms

\* the elements of an array
Elements(seq) == {seq[i] : i \in 1..Len(seq)}

\* the room of the first interest, in the order given, that the map
\* holds; Null when it holds none (server.js:1242-1250)
FirstMappedRoom(map, interests) ==
    LET found == {i \in 1..Len(interests) : Has(map, interests[i])}
    IN  IF found = {} THEN Null
        ELSE map[interests[CHOOSE i \in found : \A j \in found : i <= j]]

\* the names a new interest room can get: sixteen random hexadecimal
\* digits, taken here as a name no socket is in and no interest maps to
\* (server.js:1254)
NewInterestRooms ==
    {r \in InterestRooms :
        adapter[r] = {} /\ \A i \in DOMAIN interestToRoomMap : interestToRoomMap[i] # r}

\* the map after every interest of the list is set to the room
\* (server.js:1263-1265)
PointTo(map, interests, room) ==
    [x \in DOMAIN map \cup Elements(interests) |->
        IF x \in Elements(interests) THEN room ELSE map[x]]

\* socket.on('joinInterestRoom') (server.js:1236-1274); an empty list
\* stands for every payload the first test turns away
JoinInterestRoom(s, username, interests) ==
    /\ running
    /\ s \in connected
    /\ IF Len(interests) = 0
       THEN /\ out' = <<>>
            /\ UNCHANGED <<adapter, interestVars>>
       ELSE \E roomToJoin \in IF FirstMappedRoom(interestToRoomMap, interests) # Null
                              THEN {FirstMappedRoom(interestToRoomMap, interests)}
                              ELSE NewInterestRooms :
            LET ad == Join(adapter, s, roomToJoin) IN
            /\ adapter' = ad
            /\ interestToRoomMap' = PointTo(interestToRoomMap, interests, roomToJoin)
            /\ interestJoins' = [interestJoins EXCEPT ![s] =
                    MapSet(@, roomToJoin, OrElse(@, roomToJoin, {}) \cup Elements(interests))]
            /\ out' = << EmitSelf(s, "interestRoomAssigned", [roomName |-> roomToJoin]),
                         EmitIn(ad, roomToJoin, "interestRoomUserCount",
                                [count |-> Cardinality(ad[roomToJoin])]) >>
    /\ UNCHANGED <<connected, closed, running, serverVars, setupVars, meshVars, loopVars>>

\* socket.leave(room)
Leave(ad, s, room) == [ad EXCEPT ![room] = @ \ {s}]

\* the map without the interests that point to the room
\* (server.js:1290-1294)
Unmap(map, room) ==
    [x \in {i \in DOMAIN map : map[i] # room} |-> map[x]]

\* socket.on('leaveInterestRoom') (server.js:1276-1296); the adapter
\* holds no room without socket, so that an emptied room is not found
LeaveInterestRoom(s, username, roomName) ==
    /\ running
    /\ s \in connected
    /\ IF roomName = Undefined
       THEN /\ out' = <<>>
            /\ UNCHANGED <<adapter, interestVars>>
       ELSE LET ad == Leave(adapter, s, roomName)
                userCount == Cardinality(ad[roomName])
            IN  /\ adapter' = ad
                /\ out' = IF userCount # 0
                          THEN <<EmitIn(ad, roomName, "interestRoomUserCount",
                                        [count |-> userCount])>>
                          ELSE <<>>
                /\ interestToRoomMap' = IF userCount = 0
                                        THEN Unmap(interestToRoomMap, roomName)
                                        ELSE interestToRoomMap
                /\ interestJoins' = [interestJoins EXCEPT ![s] = MapDelete(@, roomName)]
    /\ UNCHANGED <<connected, closed, running, serverVars, setupVars, meshVars, loopVars>>

\* ----------------------------------------------- server.js, voice calls

\* the participant lists a client may send with callRequest
\* ([given |-> FALSE] is a payload without the field)
ParticipantArgs(from) ==
    { [given |-> FALSE] } \cup
    { [given |-> TRUE, list |-> l] :
        l \in { <<>>, <<from>>, <<from, from>> } \cup { <<from, u>> : u \in Users \ {from} } }

\* participants || [] (server.js:1444)
OrEmpty(participants) == IF participants.given THEN participants.list ELSE <<>>

\* the room a callRequest on an unknown code stores (server.js:1438)
CallOnlyRoom == [users |-> <<>>, callState |-> "idle", callInitiator |-> Null]

\* callRequest that keeps the participant list the room had
RingingKeepsList(room, from, participants) ==
    MapSet(MapSet(MapSet(room, "callState", "ringing"),
                  "callInitiator", from),
           "callParticipants", OrElse(room, "callParticipants", <<>>))

\* the room after callRequest (server.js:1442-1444)
Ringing(room, from, participants) ==
    MapSet(MapSet(MapSet(room, "callState", "ringing"),
                  "callInitiator", from),
           "callParticipants", OrEmpty(participants))

\* socket.on('callRequest') (server.js:1433-1456)
CallRequest(s, roomCode, from, participants) ==
    /\ running
    /\ s \in connected
    /\ LET room == IF Has(activeRooms, roomCode) THEN activeRooms[roomCode] ELSE CallOnlyRoom
       IN  activeRooms' = MapSet(activeRooms, roomCode, Ringing(room, from, participants))
    /\ out' = <<EmitTo(adapter, s, roomCode, "callRequest",
                       [from |-> from, roomCode |-> roomCode, participants |-> participants])>>
    /\ UNCHANGED <<connected, closed, adapter, running, regVars, accepted, setupVars, interestVars, meshVars, loopVars>>

\* an uncaught TypeError in a listener ends the process: nothing is
\* emitted and no later event is handled
Throw ==
    /\ running' = FALSE
    /\ out' = <<>>
    /\ UNCHANGED <<connected, closed, adapter, serverVars, setupVars, interestVars, meshVars, loopVars>>

\* callAccepted that connects whatever the phase was
AcceptedAnyPhase(room, from) ==
    LET parts == IF Includes(room.callParticipants, from)
                 THEN room.callParticipants
                 ELSE Append(room.callParticipants, from)
    IN  IF Len(parts) > 1
        THEN MapSet(MapSet(room, "callParticipants", parts), "callState", "connected")
        ELSE MapSet(room, "callParticipants", parts)

\* the room after callAccepted (server.js:1464-1471)
Accepted(room, from) ==
    LET parts == IF Includes(room.callParticipants, from)
                 THEN room.callParticipants
                 ELSE Append(room.callParticipants, from)
        state == IF OrElse(room, "callState", Undefined) = "ringing" /\ Len(parts) > 1
                 THEN "connected"
                 ELSE OrElse(room, "callState", Undefined)
    IN  IF state = Undefined
        THEN MapSet(room, "callParticipants", parts)
        ELSE MapSet(MapSet(room, "callParticipants", parts), "callState", state)

\* socket.on('callAccepted') (server.js:1458-1488)
CallAccepted(s, from, roomCode) ==
    /\ running
    /\ s \in connected
    /\ IF Has(activeRooms, roomCode) /\ ~Has(activeRooms[roomCode], "callParticipants")
       THEN Throw
       ELSE /\ IF Has(activeRooms, roomCode)
               THEN activeRooms' = [activeRooms EXCEPT ![roomCode] = Accepted(@, from)]
               ELSE UNCHANGED activeRooms
            /\ LET parts == IF Has(activeRooms, roomCode)
                            THEN activeRooms'[roomCode].callParticipants ELSE <<>>
                   state == IF Has(activeRooms, roomCode)
                            THEN OrElse(activeRooms'[roomCode], "callState", "connected")
                            ELSE "connected"
               IN out' = << EmitIn(adapter, roomCode, "callAccepted",
                                   [from |-> from, roomCode |-> roomCode,
                                    callParticipants |-> parts, callState |-> state]),
                            EmitIn(adapter, roomCode, "userJoinedCall",
                                   [username |-> from, roomCode |-> roomCode,
                                    callParticipants |-> parts]) >>
            /\ UNCHANGED <<connected, closed, adapter, running>>
    /\ UNCHANGED <<regVars, accepted, setupVars, interestVars, meshVars, loopVars>>

\* room.callInitiator is truthy (server.js:1495)
HasInitiator(room) ==
    OrElse(room, "callInitiator", Undefined) \notin {Undefined, Null, ""}

\* socket.on('callRejected') (server.js:1490-1498)
CallRejected(s, from, roomCode) ==
    /\ running
    /\ s \in connected
    /\ out' = IF Has(activeRooms, roomCode) /\ HasInitiator(activeRooms[roomCode])
              THEN <<EmitTo(adapter, s, activeRooms[roomCode].callInitiator, "callRejected",
                            [from |-> from, roomCode |-> roomCode])>>
              ELSE <<>>
    /\ UNCHANGED <<connected, closed, adapter, running, serverVars, setupVars, interestVars, meshVars, loopVars>>

\* callEnded that leaves the initiator in place
EndedKeepsInitiator(room) ==
    MapSet(MapSet(room, "callState", "idle"), "callParticipants", <<>>)

\* the room after callEnded (server.js:1506-1508)
Ended(room) ==
    MapSet(MapSet(MapSet(room, "callState", "idle"),
                  "callInitiator", Null),
           "callParticipants", <<>>)

\* callEnded that ends the calls of all rooms
CallEndedEverywhere(s, roomCode, from) ==
    /\ running
    /\ s \in connected
    /\ activeRooms' = [c \in DOMAIN activeRooms |-> Ended(activeRooms[c])]
    /\ out' = <<EmitIn(adapter, roomCode, "callEnded", [from |-> from, roomCode |-> roomCode])>>
    /\ UNCHANGED <<connected, closed, adapter, running, regVars, accepted, setupVars, interestVars, meshVars, loopVars>>

\* socket.on('callEnded') (server.js:1500-1517)
CallEnded(s, roomCode, from) ==
    /\ running
    /\ s \in connected
    /\ IF Has(activeRooms, roomCode)
       THEN activeRooms' = [activeRooms EXCEPT ![roomCode] = Ended(@)]
       ELSE UNCHANGED activeRooms
    /\ out' = <<EmitIn(adapter, roomCode, "callEnded", [from |-> from, roomCode |-> roomCode])>>
    /\ UNCHANGED <<connected, closed, adapter, running, regVars, accepted, setupVars, interestVars, meshVars, loopVars>>

\* socket.on('userJoinedCall') (server.js:1520-1530)
UserJoinedCall(s, username, roomCode) ==
    /\ running
    /\ s \in connected
    /\ IF Has(activeRooms, roomCode)
       THEN LET room == activeRooms[roomCode]
                old == OrElse(room, "callParticipants", <<>>)
            IN  IF Includes(old, username)
                THEN /\ activeRooms' = [activeRooms EXCEPT
                            ![roomCode] = MapSet(@, "callParticipants", old)]
                     /\ out' = <<>>
                ELSE LET parts == Append(old, username) IN
                     /\ activeRooms' = [activeRooms EXCEPT
                            ![roomCode] = MapSet(@, "callParticipants", parts)]
                     /\ out' = << EmitIn(adapter, roomCode, "userJoinedCall",
                                         [username |-> username, roomCode |-> roomCode,
                                          callParticipants |-> parts]),
                                  EmitIn(adapter, roomCode, "roomParticipants",
                                         [participants |-> room.users,
                                          callParticipants |-> parts]) >>
       ELSE /\ out' = <<>>
            /\ UNCHANGED activeRooms
    /\ UNCHANGED <<connected, closed, adapter, running, regVars, accepted, setupVars, interestVars, meshVars, loopVars>>

\* handleLeaveCall that ends the call whoever is left in it
LeftEndsCall(room, username) ==
    MapSet(MapSet(MapSet(room, "callParticipants", Filter(room.callParticipants, username)),
                  "callState", "idle"),
           "callInitiator", Null)

\* the room after handleLeaveCall (server.js:1536-1542)
Left(room, username) ==
    LET parts == Filter(room.callParticipants, username)
        r == MapSet(room, "callParticipants", parts)
    IN  IF Len(parts) = 0
        THEN MapSet(MapSet(r, "callState", "idle"), "callInitiator", Null)
        ELSE r

\* handleLeaveCall, socket.on('userLeftCall') (server.js:1533-1545)
UserLeftCall(s, username, roomCode) ==
    /\ running
    /\ s \in connected
    /\ IF ~Has(activeRooms, roomCode)
       THEN /\ out' = <<>>
            /\ UNCHANGED <<connected, closed, adapter, running, activeRooms>>
       ELSE IF ~Has(activeRooms[roomCode], "callParticipants")
       THEN Throw
       ELSE LET room == activeRooms[roomCode]
                parts == Filter(room.callParticipants, username)
            IN  /\ activeRooms' = [activeRooms EXCEPT ![roomCode] = Left(@, username)]
                /\ out' = << EmitIn(adapter, roomCode, "userLeftCall",
                                    [username |-> username, roomCode |-> roomCode,
                                     callParticipants |-> parts]),
                             EmitIn(adapter, roomCode, "roomParticipants",
                                    [participants |-> room.users,
                                     callParticipants |-> parts]) >>
                /\ UNCHANGED <<connected, closed, adapter, running>>
    /\ UNCHANGED <<regVars, accepted, setupVars, interestVars, meshVars, loopVars>>

\* ------------------------- server.js, a listener statement by statement

\* an event loop that hands over the next event while a listener is
\* still between two of its statements
LoopAnyTime == TRUE

\* the event loop hands over the next event when the running listener
\* has returned: the listeners of server.js are synchronous functions,
\* none awaits or defers a statement (server.js:1458-1488)
LoopIdle == listener.at = "idle"

\* the event loop calls the 'callAccepted' listener, which reads the room
\* (server.js:1458-1461); before is the store the listener started from
BeginCallAccepted(s, from, roomCode) ==
    /\ running
    /\ s \in connected
    /\ LoopIdle
    /\ listener' = [at |-> "push", from |-> from, roomCode |-> roomCode,
                    room |-> Has(activeRooms, roomCode), before |-> activeRooms]
    /\ out' = <<>>
    /\ UNCHANGED <<connected, closed, adapter, running, serverVars, setupVars, interestVars, meshVars>>

\* the room the running listener holds is still the stored one
HoldsRoom == listener.room /\ Has(activeRooms, listener.roomCode)

\* the running listener moves to its next statement
Goto(at) == listener' = [listener EXCEPT !.at = at]

\* if (!room.callParticipants.includes(from)) push (server.js:1462-1466)
StepPush ==
    /\ running
    /\ listener.at = "push"
    /\ IF HoldsRoom /\ ~Has(activeRooms[listener.roomCode], "callParticipants")
       THEN Throw
       ELSE /\ IF HoldsRoom /\ ~Includes(activeRooms[listener.roomCode].callParticipants,
                                          listener.from)
               THEN activeRooms' = [activeRooms EXCEPT ![listener.roomCode] =
                                       MapSet(@, "callParticipants",
                                              Append(@.callParticipants, listener.from))]
               ELSE UNCHANGED activeRooms
            /\ Goto("state")
            /\ UNCHANGED <<connected, closed, adapter, running, out, regVars,
                           accepted, setupVars, interestVars, meshVars>>

\* if ringing and more than one participant, connected (server.js:1469-1471)
StepState ==
    /\ running
    /\ listener.at = "state"
    /\ IF /\ HoldsRoom
          /\ OrElse(activeRooms[listener.roomCode], "callState", Undefined) = "ringing"
          /\ Len(activeRooms[listener.roomCode].callParticipants) > 1
       THEN activeRooms' = [activeRooms EXCEPT ![listener.roomCode] =
                               MapSet(@, "callState", "connected")]
       ELSE UNCHANGED activeRooms
    /\ Goto("callAccepted")
    /\ UNCHANGED <<connected, closed, adapter, running, out, regVars,
                   accepted, setupVars, interestVars, meshVars>>

\* room?.callParticipants || [] (server.js:1478)
HeldParticipants ==
    IF HoldsRoom THEN activeRooms[listener.roomCode].callParticipants ELSE <<>>

\* io.in(roomCode).emit('callAccepted', ...) (server.js:1475-1480)
StepCallAccepted ==
    /\ running
    /\ listener.at = "callAccepted"
    /\ out' = Append(out, EmitIn(adapter, listener.roomCode, "callAccepted",
                [from |-> listener.from, roomCode |-> listener.roomCode,
                 callParticipants |-> HeldParticipants,
                 callState |-> IF HoldsRoom
                               THEN OrElse(activeRooms[listener.roomCode],
                                           "callState", "connected")
                               ELSE "connected"]))
    /\ Goto("userJoinedCall")
    /\ UNCHANGED <<connected, closed, adapter, running, serverVars, setupVars, interestVars, meshVars>>

\* io.in(roomCode).emit('userJoinedCall', ...) and return (server.js:1483-1488)
StepUserJoinedCall ==
    /\ running
    /\ listener.at = "userJoinedCall"
    /\ out' = Append(out, EmitIn(adapter, listener.roomCode, "userJoinedCall",
                [username |-> listener.from, roomCode |-> listener.roomCode,
                 callParticipants |-> HeldParticipants]))
    /\ listener' = Idle
    /\ UNCHANGED <<connected, closed, adapter, running, serverVars, setupVars, interestVars, meshVars>>

\* ------------------------------------------ server.js, the two queries

\* the call fields of an answer, read off the room without the defaults
CallFieldsRaw(room) ==
    [callState |-> OrElse(room, "callState", Undefined),
     callInitiator |-> OrElse(room, "callInitiator", Undefined),
     callParticipants |-> OrElse(room, "callParticipants", Undefined)]

\* the call fields of an answer for a stored room: room.callState ||
\* 'idle', room.callInitiator, room.callParticipants || []
\* (server.js:1574-1576, 1594-1596)
CallFields(room) ==
    [callState |-> OrElse(room, "callState", "idle"),
     callInitiator |-> OrElse(room, "callInitiator", Undefined),
     callParticipants |-> OrElse(room, "callParticipants", <<>>)]

\* the call fields of an answer when there is no room
\* (server.js:1580-1582, 1600-1602)
NoCallFields ==
    [callState |-> "idle", callInitiator |-> Null, callParticipants |-> <<>>]

\* socket.on('getRoomParticipants') (server.js:1569-1586)
GetRoomParticipants(s, roomCode) ==
    /\ running
    /\ s \in connected
    /\ out' = IF Has(activeRooms, roomCode) /\ Has(activeRooms[roomCode], "users")
              THEN <<EmitSelf(s, "roomParticipants",
                              MapSet(CallFields(activeRooms[roomCode]),
                                     "participants", activeRooms[roomCode].users))>>
              ELSE <<EmitSelf(s, "roomParticipants",
                              MapSet(NoCallFields, "participants", <<>>))>>
    /\ UNCHANGED <<connected, closed, adapter, running, serverVars, setupVars, interestVars, meshVars, loopVars>>

\* socket.on('getCallState') (server.js:1589-1606)
GetCallState(s, roomCode) ==
    /\ running
    /\ s \in connected
    /\ out' = IF Has(activeRooms, roomCode)
              THEN <<EmitSelf(s, "callState",
                              MapSet(CallFields(activeRooms[roomCode]),
                                     "roomCode", roomCode))>>
              ELSE <<EmitSelf(s, "callState",
                              MapSet(NoCallFields, "roomCode", roomCode))>>
    /\ UNCHANGED <<connected, closed, adapter, running, serverVars, setupVars, interestVars, meshVars, loopVars>>

\* ---------------------------------------- server.js, WebRTC signalling

\* socket.on('offer') (server.js:1548-1551)
Offer(s, to, offer) ==
    /\ running
    /\ s \in connected
    /\ out' = <<EmitTo(adapter, s, to, "offer", [from |-> s, offer |-> offer])>>
    /\ UNCHANGED <<connected, closed, adapter, running, serverVars, setupVars, interestVars, meshVars, loopVars>>

\* socket.on('answer') (server.js:1553-1556)
Answer(s, to, answer) ==
    /\ running
    /\ s \in connected
    /\ out' = <<EmitTo(adapter, s, to, "answer", [from |-> s, answer |-> answer])>>
    /\ UNCHANGED <<connected, closed, adapter, running, serverVars, setupVars, interestVars, meshVars, loopVars>>

\* socket.on('iceCandidate') (server.js:1558-1561)
IceCandidate(s, to, candidate) ==
    /\ running
    /\ s \in connected
    /\ out' = <<EmitTo(adapter, s, to, "iceCandidate",
                       [from |-> s, candidate |-> candidate])>>
    /\ UNCHANGED <<connected, closed, adapter, running, serverVars, setupVars, interestVars, meshVars, loopVars>>

\* socket.on('join') of the mesh rooms (server.js:1631-1656); the room is
\* any string the client sends
MeshJoin(s, room) ==
    /\ running
    /\ s \in connected
    /\ Len(meshJoins[s]) < MaxJoins
    /\ LET ad == Join(adapter, s, room)
           list == Append(OrElse(meshRooms, room, <<>>), s)
       IN  /\ adapter' = ad
           /\ meshRooms' = MapSet(meshRooms, room, list)
           /\ out' = << EmitIn(ad, s, "peers", [peers |-> Filter(list, s)]),
                        EmitTo(ad, s, room, "new-peer", [peerId |-> s]),
                        EmitIn(ad, room, "user-count", [count |-> Len(list)]) >>
    /\ meshJoins' = [meshJoins EXCEPT ![s] = Append(@, room)]
    /\ UNCHANGED <<connected, closed, running, serverVars, setupVars, loopVars, interestVars>>

\* n times the emission e
Repeat(e, n) == [i \in 1..n |-> e]

\* a 'signal' event of the socket: every 'join' it sent registered one
\* more listener (server.js:1646-1648), and each of them forwards the
\* event; a socket that sent no 'join' has no listener
MeshSignal(s, to, data) ==
    /\ running
    /\ s \in connected
    /\ out' = Repeat(EmitIn(adapter, to, "signal", [from |-> s, data |-> data]),
                     Len(meshJoins[s]))
    /\ UNCHANGED <<connected, closed, adapter, running, serverVars, setupVars, interestVars, meshVars, loopVars>>

\* ------------------------------------------- src/unnamed/part_001

\* the entries the user lists of a store hold together
Listed(store) ==
    LET RECURSIVE Sum(_)
        Sum(S) == IF S = {} THEN 0
                  ELSE LET c == CHOOSE x \in S : TRUE
                       IN  Len(store[c].users) + Sum(S \ {c})
    IN  Sum(DOMAIN store)

\* the message of the 'System' user (part_001:34-38, 66-70, 135-139)
SystemMessage(username, what) ==
    [username |-> "System", message |-> <<username, what>>]

\* socket.on('createRoom') (part_001:16-45); roomCode is what
\* Math.random gave (part_001:19)
SetupCreateRoom(s, username, roomCode) ==
    /\ running
    /\ s \in connected
    /\ roomCode \in Codes
    /\ Listed(MapDelete(rooms, roomCode)) < MaxListed
    /\ rooms' = MapSet(rooms, roomCode,
                       [users |-> <<[id |-> s, username |-> username]>>, messages |-> <<>>])
    /\ LET ad == Join(adapter, s, roomCode) IN
        /\ adapter' = ad
        /\ out' = << EmitSelf(s, "createRoom:callback", roomCode),
                     EmitIn(ad, roomCode, "message",
                            SystemMessage(username, "has created the room")) >>
    /\ UNCHANGED <<connected, closed, running, serverVars, sockRoomCode, interestVars, meshVars, loopVars>>

\* socket.on('joinRoom') (part_001:47-79)
SetupJoinRoom(s, roomCode, username) ==
    /\ running
    /\ s \in connected
    /\ IF ~Has(rooms, roomCode)
       THEN /\ out' = <<EmitSelf(s, "joinRoom:callback", [error |-> "Room not found"])>>
            /\ UNCHANGED <<adapter, rooms, sockRoomCode>>
       ELSE LET ad == Join(adapter, s, roomCode) IN
            /\ Listed(rooms) < MaxListed
            /\ rooms' = [rooms EXCEPT ![roomCode].users =
                            Append(@, [id |-> s, username |-> username])]
            /\ adapter' = ad
            /\ sockRoomCode' = [sockRoomCode EXCEPT ![s] = roomCode]
            /\ out' = << EmitIn(ad, roomCode, "message",
                                SystemMessage(username, "has joined the room")),
                         EmitSelf(s, "joinRoom:callback", [success |-> TRUE]) >>
    /\ UNCHANGED <<connected, closed, running, serverVars, interestVars, meshVars, loopVars>>

\* the size limit of an inline payload (part_001:94, 99)
Limit == 10 * 1024 * 1024

\* a base64 string is the first len characters of a blob
Payload(blob, len) == [blob |-> blob, len |-> len]
\* an absent payload
NoPayload == Payload("", 0)

\* String.substring(0, n)
Substring(p, n) == IF p.len > n THEN [p EXCEPT !.len = n] ELSE p

\* the payload chatMessage stores (part_001:94-102)
Truncate(p) == IF p.len > 0 /\ p.len > Limit THEN Substring(p, Limit) ELSE p

\* the messages a client may send with chatMessage
ChatMessages ==
    { [username |-> "ann", text |-> "", audioBase64 |-> NoPayload,
       attachmentBase64 |-> NoPayload],
      [username |-> "ann", text |-> "hi", audioBase64 |-> NoPayload,
       attachmentBase64 |-> Payload("file", Limit)],
      [username |-> "bob", text |-> "", audioBase64 |-> Payload("voice", Limit + 1),
       attachmentBase64 |-> NoPayload] }

\* socket.on('chatMessage') (part_001:81-113)
ChatMessage(s, roomCode, message) ==
    /\ running
    /\ s \in connected
    /\ IF ~Has(rooms, roomCode)
       THEN /\ out' = <<>>
            /\ UNCHANGED rooms
       ELSE LET stored == [message EXCEPT
                              !.audioBase64 = Truncate(@),
                              !.attachmentBase64 = Truncate(@)]
            IN  /\ Stored(rooms) < MaxStored
                /\ rooms' = [rooms EXCEPT ![roomCode].messages = Append(@, stored)]
                /\ out' = <<EmitTo(adapter, s, roomCode, "message", stored)>>
    /\ UNCHANGED <<connected, closed, adapter, running, serverVars, sockRoomCode, interestVars, meshVars, loopVars>>

\* users.findIndex(user => user.id === id), from 1; 0 when there is none
FindIndex(users, id) ==
    IF \E i \in 1..Len(users) : users[i].id = id
    THEN CHOOSE i \in 1..Len(users) :
            users[i].id = id /\ \A j \in 1..(i - 1) : users[j].id # id
    ELSE 0

\* the store after the disconnect of s (part_001:120-147)
AfterLeave(store, s, roomCode) ==
    IF roomCode # Undefined /\ Has(store, roomCode)
       /\ FindIndex(store[roomCode].users, s) # 0
    THEN LET users == DropAt(store[roomCode].users, FindIndex(store[roomCode].users, s))
         IN  IF Len(users) = 0
             THEN MapDelete(store, roomCode)
             ELSE [store EXCEPT ![roomCode].users = users]
    ELSE store

\* socket.on('disconnect') (part_001:115-151)
SetupDisconnect(s) ==
    /\ running
    /\ s \in connected
    /\ connected' = connected \ {s}
    /\ closed' = closed \cup {s}
    /\ adapter' = LeaveAll(adapter, s)
    /\ rooms' = AfterLeave(rooms, s, sockRoomCode[s])
    /\ LET roomCode == sockRoomCode[s] IN
        out' = IF roomCode # Undefined /\ Has(rooms, roomCode)
                  /\ FindIndex(rooms[roomCode].users, s) # 0
               THEN <<EmitIn(adapter', roomCode, "message",
                             SystemMessage(
                                rooms[roomCode].users[FindIndex(rooms[roomCode].users, s)].username,
                                "has left the room"))>>
               ELSE <<>>
    /\ UNCHANGED <<running, serverVars, sockRoomCode, interestVars, meshVars, loopVars>>

\* ------------------------------------------------------ specifications

\* the display name the client of each socket sends
NameOf == [s \in Sockets |-> IF s = "s1" THEN "ann" ELSE "bob"]

\* the room store and the messaging relay of server.js
Next ==
    \/ \E s \in Sockets : Connect(s)
    \/ \E s \in Sockets : Disconnect(s)
    \/ \E s \in Sockets, c \in Codes : CreateRoom(s, NameOf[s], c)
    \/ \E s \in Sockets, c \in Names : JoinRoom(s, c, NameOf[s])
    \/ \E s \in Sockets, m \in Messages : SendMessage(s, m)

Spec == Init /\ [][Next]_vars

\* the call coordinator of server.js
NextCall ==
    \/ \E s \in Sockets : Connect(s)
    \/ \E s \in Sockets : Disconnect(s)
    \/ \E s \in Sockets : CreateRoom(s, NameOf[s], "c1")
    \/ \E s \in Sockets : JoinRoom(s, "c1", NameOf[s])
    \/ \E s \in Sockets, c \in Codes :
            \E p \in ParticipantArgs(NameOf[s]) : CallRequest(s, c, NameOf[s], p)
    \/ \E s \in Sockets : CallAccepted(s, NameOf[s], "c1")
    \/ \E s \in Sockets : CallRejected(s, NameOf[s], "c1")
    \/ \E s \in Sockets, c \in Codes : CallEnded(s, c, NameOf[s])
    \/ \E s \in Sockets : UserJoinedCall(s, NameOf[s], "c1")
    \/ \E s \in Sockets : UserLeftCall(s, NameOf[s], "c1")

SpecCall == Init /\ [][NextCall]_vars

\* setupSocket of part_001
NextSetup ==
    \/ \E s \in Sockets : Connect(s)
    \/ \E s \in Sockets : SetupDisconnect(s)
    \/ \E s \in Sockets, c \in Codes : SetupCreateRoom(s, NameOf[s], c)
    \/ \E s \in Sockets, c \in Codes : SetupJoinRoom(s, c, NameOf[s])
    \/ \E s \in Sockets, c \in Codes, m \in ChatMessages : ChatMessage(s, c, m)

SpecSetup == Init /\ [][NextSetup]_vars

\* the strings a client may register as its name: a display name or,
\* as any string may be sent, a socket id
RegisteredNames == Users \cup Sockets

\* the connection registry of server.js
NextRegistry ==
    \/ \E s \in Sockets : Connect(s)
    \/ \E s \in Sockets : Disconnect(s)
    \/ \E s \in Sockets, u \in RegisteredNames : Register(s, u)
    \/ \E s \in Sockets, u \in RegisteredNames \cup {Undefined} : GetSocketId(s, u)
    \/ \E s, t \in Sockets : GetUsername(s, t)

SpecRegistry == Init /\ [][NextRegistry]_vars

\* the signalling relay of server.js, with the mesh rooms through which
\* a socket enters a socket.io room of its choice
NextSignal ==
    \/ \E s \in Sockets : Connect(s)
    \/ \E s \in Sockets : Disconnect(s)
    \/ \E s \in Sockets, r \in {"c1"} \cup Sockets : MeshJoin(s, r)
    \/ \E s \in Sockets, t \in Names : Offer(s, t, "sdp")
    \/ \E s \in Sockets, t \in Names : Answer(s, t, "sdp")
    \/ \E s \in Sockets, t \in Names : IceCandidate(s, t, "candidate")
    \/ \E s \in Sockets, t \in Sockets : MeshSignal(s, t, "sdp")

SpecSignal == Init /\ [][NextSignal]_vars

\* the messages with inline payloads a client may send with sendMessage:
\* those of chatMessage, with the code of the room
PayloadMessages ==
    { [roomCode |-> c, username |-> m.username, text |-> m.text,
       audioBase64 |-> m.audioBase64, attachmentBase64 |-> m.attachmentBase64] :
        c \in Codes, m \in ChatMessages }

\* the messaging relay of server.js under messages with inline payloads
NextPayload ==
    \/ \E s \in Sockets : Connect(s)
    \/ \E s \in Sockets : Disconnect(s)
    \/ \E s \in Sockets : CreateRoom(s, NameOf[s], "c1")
    \/ \E s \in Sockets : JoinRoom(s, "c1", NameOf[s])
    \/ \E s \in Sockets, m \in PayloadMessages : SendMessage(s, m)

SpecPayload == Init /\ [][NextPayload]_vars

\* the call coordinator of server.js with the 'callAccepted' listener run
\* statement by statement: the event loop hands over an event when idle
NextSteps ==
    \/ \E s \in Sockets : LoopIdle /\ Connect(s)
    \/ \E s \in Sockets : LoopIdle /\ CreateRoom(s, NameOf[s], "c1")
    \/ \E s \in Sockets : LoopIdle /\ JoinRoom(s, "c1", NameOf[s])
    \/ \E s \in Sockets :
            \E p \in ParticipantArgs(NameOf[s]) :
                LoopIdle /\ CallRequest(s, "c1", NameOf[s], p)
    \/ \E s \in Sockets : LoopIdle /\ CallEnded(s, "c1", NameOf[s])
    \/ \E s \in Sockets : LoopIdle /\ UserLeftCall(s, NameOf[s], "c1")
    \/ \E s \in Sockets : BeginCallAccepted(s, NameOf[s], "c1")
    \/ StepPush
    \/ StepState
    \/ StepCallAccepted
    \/ StepUserJoinedCall

SpecSteps == Init /\ [][NextSteps]_vars

\* the ids a client may name in a like
MessageIds == {"m1", "m2"}

\* the messages a client may send with sendMessage that carry an id: the
\* object is stored as it came, with the likes field the client gave it
LikeMessages ==
    LET m == [roomCode |-> "c1", username |-> "bob", text |-> "hi",
              attachment |-> Null, audio |-> Null, id |-> "m1"]
    IN  {m} \cup { MapSet(m, "likes", l) : l \in {<<>>, <<"bob", "bob">>} }

\* the messaging relay of server.js with the likes of stored messages
NextLike ==
    \/ \E s \in Sockets : Connect(s)
    \/ \E s \in Sockets : Disconnect(s)
    \/ \E s \in Sockets : CreateRoom(s, NameOf[s], "c1")
    \/ \E s \in Sockets : JoinRoom(s, "c1", NameOf[s])
    \/ \E s \in Sockets, m \in LikeMessages : SendMessage(s, m)
    \/ \E s \in Sockets, c \in Codes, i \in MessageIds :
            LikeInterestMessage(s, c, i, NameOf[s])

SpecLike == Init /\ [][NextLike]_vars

\* the messaging relay of server.js with clients that ask for an edit
NextEdit ==
    \/ \E s \in Sockets : Connect(s)
    \/ \E s \in Sockets : Disconnect(s)
    \/ \E s \in Sockets : CreateRoom(s, NameOf[s], "c1")
    \/ \E s \in Sockets : JoinRoom(s, "c1", NameOf[s])
    \/ \E s \in Sockets, m \in LikeMessages : SendMessage(s, m)
    \/ \E s \in Sockets, c \in Codes, i \in MessageIds : EditMessage(s, c, i, "new")

SpecEdit == Init /\ [][NextEdit]_vars

\* the messaging relay of server.js with clients that ask for a deletion
NextDelete ==
    \/ \E s \in Sockets : Connect(s)
    \/ \E s \in Sockets : Disconnect(s)
    \/ \E s \in Sockets : CreateRoom(s, NameOf[s], "c1")
    \/ \E s \in Sockets : JoinRoom(s, "c1", NameOf[s])
    \/ \E s \in Sockets, m \in LikeMessages : SendMessage(s, m)
    \/ \E s \in Sockets, c \in Codes, i \in MessageIds : DeleteMessage(s, c, i)

SpecDelete == Init /\ [][NextDelete]_vars

\* the interests a client may name
Interests == {"music", "chess"}

\* the interest lists a client may send
InterestLists ==
    {<<>>} \cup {<<i>> : i \in Interests}
           \cup {<<i, j>> : i \in Interests, j \in Interests}

\* the interest rooms of server.js
NextInterest ==
    \/ \E s \in Sockets : Connect(s)
    \/ \E s \in Sockets : Disconnect(s)
    \/ \E s \in Sockets, l \in InterestLists : JoinInterestRoom(s, NameOf[s], l)
    \/ \E s \in Sockets, r \in InterestRooms \cup {Undefined} :
            LeaveInterestRoom(s, NameOf[s], r)

SpecInterest == Init /\ [][NextInterest]_vars

\* the call coordinator of server.js with the two queries
NextQuery ==
    \/ \E s \in Sockets : Connect(s)
    \/ \E s \in Sockets : Disconnect(s)
    \/ \E s \in Sockets : CreateRoom(s, NameOf[s], "c1")
    \/ \E s \in Sockets : JoinRoom(s, "c1", NameOf[s])
    \/ \E s \in Sockets :
            \E p \in ParticipantArgs(NameOf[s]) : CallRequest(s, "c1", NameOf[s], p)
    \/ \E s \in Sockets : CallAccepted(s, NameOf[s], "c1")
    \/ \E s \in Sockets : CallEnded(s, "c1", NameOf[s])
    \/ \E s \in Sockets, c \in Codes : GetRoomParticipants(s, c)
    \/ \E s \in Sockets, c \in Codes : GetCallState(s, c)

SpecQuery == Init /\ [][NextQuery]_vars

\* ------------------------------------------------------------- claims

\* the socket ids in the user list of room c of setupSocket
ListedIds(c) == {rooms[c].users[i].id : i \in 1..Len(rooms[c].users)}

\* C1: the user list of every live room holds exactly the connections that
\* created or joined the room and are still connected (the sockets in the
\* adapter room of its code), each of them once.
C1_MembersAreThePresent ==
    \A c \in DOMAIN rooms :
        /\ ListedIds(c) = adapter[c]
        /\ \A i, j \in 1..Len(rooms[c].users) :
                i # j => rooms[c].users[i].id # rooms[c].users[j].id

\* C2: the disconnect of the only connected member of a room removes the
\* room from the store in the same step.
C2_LastLeaveRemovesRoom ==
    [][\A s \in Sockets, c \in DOMAIN rooms :
          (ListedIds(c) \cap connected = {s} /\ SetupDisconnect(s))
              => ~Has(rooms', c)]_vars

\* room c lists its creator alone, and the creator's connection has ended
OnlyCreatorAndGone(c) ==
    /\ Has(rooms, c)
    /\ Len(rooms[c].users) = 1
    /\ rooms[c].users[1].id \in closed

\* C3: once the creator of a room has disconnected with no other
\* connection in the room, a joinRoom with its code is answered
\* 'Room not found'.
C3_CodeInvalidAfterCreatorLeft ==
    [][\A s \in Sockets, c \in Codes, u \in Users :
          (OnlyCreatorAndGone(c) /\ SetupJoinRoom(s, c, u))
              => out' = <<EmitSelf(s, "joinRoom:callback", [error |-> "Room not found"])>>]_vars

\* C4: the code createRoom returns is the code of no room that is live
\* when it is called.
C4_CreatedCodeIsFresh ==
    [][\A s \in Sockets, u \in Users, c \in Codes :
          CreateRoom(s, u, c) => ~Has(activeRooms, c)]_vars

\* the call state of a room, as getCallState reports it (server.js:1594-1596)
CallPhase(room) == OrElse(room, "callState", "idle")
CallInitiator(room) == OrElse(room, "callInitiator", Null)
CallParticipants(room) == OrElse(room, "callParticipants", <<>>)

\* C5: in every state, a room whose call participant list is empty has
\* call phase idle and no initiator.
C5_EmptyCallIsIdle ==
    \A c \in DOMAIN activeRooms :
        CallParticipants(activeRooms[c]) = <<>>
            => /\ CallPhase(activeRooms[c]) = "idle"
               /\ CallInitiator(activeRooms[c]) = Null

\* C6: a sendMessage whose message has empty text, no attachment and no
\* audio changes no history and is delivered to no connection.
C6_EmptyMessageRejected ==
    [][\A s \in Sockets, m \in Messages :
          (IsEmptyMessage(m) /\ SendMessage(s, m))
              => activeRooms' = activeRooms /\ Delivered(out') = <<>>]_vars

\* C7: the history a joinRoom delivers for a live room holds every message
\* that was sent to the room, unchanged, as often as it was sent.
C7_RoundTrip ==
    [][\A s \in Sockets, c \in Names, u \in Users :
          (Has(activeRooms, c) /\ JoinRoom(s, c, u))
              => /\ out'[1].ev = "roomHistory"
                 /\ out'[1].to = {s}
                 /\ \A m \in Messages :
                        Count(out'[1].data, m) = Count(accepted[c], m)]_vars

\* C8: a joinRoom on a code without live room changes no room, no member
\* list, no history and no adapter room, and its one emission is the
\* 'Room not found' error, sent to the calling socket alone.
C8_UnknownCodeTellsCallerOnly ==
    [][\A s \in Sockets, c \in Names, u \in Users :
          (~Has(activeRooms, c) /\ JoinRoom(s, c, u))
              => /\ activeRooms' = activeRooms
                 /\ adapter' = adapter
                 /\ accepted' = accepted
                 /\ Len(out') = 1
                 /\ out'[1].ev = "joinError"
                 /\ out'[1].data = "Room not found"
                 /\ out'[1].to = {s}]_vars

\* a joinRoom has just failed while a room is live and another socket is
\* in it
C8_Witness ==
    \E s \in connected :
        /\ out = <<[ev |-> "joinError", to |-> {s}, data |-> "Room not found"]>>
        /\ \E c \in DOMAIN activeRooms : adapter[c] \ {s} # {}

\* C9: every room in the store has at least one member.
C9_NoRoomWithoutMember ==
    \A c \in DOMAIN activeRooms : Len(activeRooms[c].users) >= 1

\* C10: a sendMessage, callRequest, callAccepted or callEnded that names a
\* code without live room emits to no socket but, at most, the calling one.
C10_UnknownCodeNoBroadcast ==
    [][\A s \in Sockets, c \in Names :
          (/\ ~Has(activeRooms, c)
           /\ \/ \E m \in Messages : m.roomCode = c /\ SendMessage(s, m)
              \/ \E u \in Users : \E p \in ParticipantArgs(u) : CallRequest(s, c, u, p)
              \/ \E u \in Users : CallAccepted(s, u, c)
              \/ \E u \in Users : CallEnded(s, c, u))
              => \A i \in 1..Len(out') : out'[i].to \subseteq {s}]_vars

\* the live connections that are members of room c of server.js: the
\* room lists display names, and each connection has the display name it
\* sends
MemberConns(c) ==
    {s \in connected : Includes(activeRooms[c].users, NameOf[s])}

\* C11: a sendMessage by a member of a live room with a message that is
\* not empty makes one emission, which carries the message as it was sent
\* and reaches, besides the sender, exactly the other live connections
\* that are members of the room.
C11_DeliveredToMembersOnly ==
    [][\A s \in Sockets, m \in Messages :
          (/\ Has(activeRooms, m.roomCode)
           /\ s \in MemberConns(m.roomCode)
           /\ ~IsEmptyMessage(m)
           /\ SendMessage(s, m))
              => /\ Len(out') = 1
                 /\ out'[1].data = m
                 /\ out'[1].to \ {s} = MemberConns(m.roomCode) \ {s}]_vars

\* C12: when a connection listed in a room with at least two live members
\* disconnects, the room stays in the store and one emission of the
\* disconnect reaches every remaining member and lists exactly the
\* remaining members.
C12_LeaveUpdatesMembers ==
    [][\A s \in Sockets, c \in DOMAIN rooms :
          (/\ s \in ListedIds(c)
           /\ Cardinality(ListedIds(c) \cap connected) >= 2
           /\ SetupDisconnect(s))
              => LET remaining == (ListedIds(c) \cap connected) \ {s} IN
                 /\ Has(rooms', c)
                 /\ \E i \in 1..Len(out') :
                        /\ remaining \subseteq out'[i].to
                        /\ "users" \in DOMAIN out'[i].data
                        /\ {out'[i].data.users[j].id :
                                j \in 1..Len(out'[i].data.users)} = remaining]_vars

\* C13: a callRequest on a room of the store whose call phase is idle
\* leaves the phase ringing, the initiator the requester and the
\* participant list the list that was sent, and its emission is the
\* request, which reaches every live member of the room but the requester.
C13_IdleToRinging ==
    [][\A s \in Sockets, c \in Codes :
          \A p \in ParticipantArgs(NameOf[s]) :
             (/\ Has(activeRooms, c)
              /\ CallPhase(activeRooms[c]) = "idle"
              /\ CallRequest(s, c, NameOf[s], p))
                 => /\ CallPhase(activeRooms'[c]) = "ringing"
                    /\ CallInitiator(activeRooms'[c]) = NameOf[s]
                    /\ p.given => CallParticipants(activeRooms'[c]) = p.list
                    /\ ~p.given => CallParticipants(activeRooms'[c]) = <<>>
                    /\ Len(out') = 1
                    /\ out'[1].ev = "callRequest"
                    /\ out'[1].data.from = NameOf[s]
                    /\ MemberConns(c) \ {s} \subseteq out'[1].to
                    /\ s \notin out'[1].to]_vars

\* a callRequest with a list of two has just reached the other member of
\* a room that is now ringing
C13_Witness ==
    \E s \in connected, c \in DOMAIN activeRooms :
        /\ Len(out) = 1
        /\ out[1].ev = "callRequest"
        /\ out[1].data.from = NameOf[s]
        /\ out[1].to = MemberConns(c) \ {s}
        /\ out[1].to # {}
        /\ CallPhase(activeRooms[c]) = "ringing"
        /\ CallInitiator(activeRooms[c]) = NameOf[s]
        /\ Len(CallParticipants(activeRooms[c])) = 2

\* the call phase of the room of code c in a store; "none" without room
PhaseOf(store, c) == IF Has(store, c) THEN CallPhase(store[c]) ELSE "none"

\* C14: a step after which the call phase of a room is connected, and
\* before which it was not, is a callAccepted on that room taken while the
\* phase was ringing, and the participant list after it is the list
\* before it with the accepter added if absent and has more than one
\* entry.
C14_ConnectedOnlyByAccept ==
    [][\A c \in Codes :
          (/\ PhaseOf(activeRooms', c) = "connected"
           /\ PhaseOf(activeRooms, c) # "connected")
              => /\ PhaseOf(activeRooms, c) = "ringing"
                 /\ \E s \in Sockets :
                        /\ CallAccepted(s, NameOf[s], c)
                        /\ CallParticipants(activeRooms'[c]) =
                                AddUser(CallParticipants(activeRooms[c]), NameOf[s])
                        /\ Len(CallParticipants(activeRooms'[c])) > 1]_vars

\* a callAccepted has just told the room that the call is connected, and
\* the room holds a connected call of two
C14_Witness ==
    \E s \in connected, c \in DOMAIN activeRooms :
        /\ Len(out) = 2
        /\ out[1].ev = "callAccepted"
        /\ out[1].data.from = NameOf[s]
        /\ out[1].data.callState = "connected"
        /\ PhaseOf(activeRooms, c) = "connected"
        /\ Len(CallParticipants(activeRooms[c])) = 2
        /\ CallParticipants(activeRooms[c])[2] = NameOf[s]

\* C15: after a callRejected on a room of the store, the rejecter is not
\* in the participant list of the room, and if the list is empty the call
\* phase is idle and there is no initiator.
C15_RejecterRemoved ==
    [][\A s \in Sockets, c \in Codes :
          (Has(activeRooms, c) /\ CallRejected(s, NameOf[s], c))
              => /\ ~Includes(CallParticipants(activeRooms'[c]), NameOf[s])
                 /\ CallParticipants(activeRooms'[c]) = <<>>
                        => /\ CallPhase(activeRooms'[c]) = "idle"
                           /\ CallInitiator(activeRooms'[c]) = Null]_vars

\* C16: a callRejected on a room whose call initiator is the display name
\* of another live connection emits a 'callRejected' that names the
\* rejecter and reaches that connection.
C16_InitiatorToldOfRejection ==
    [][\A s, t \in Sockets, c \in Codes :
          (/\ s # t
           /\ t \in connected
           /\ Has(activeRooms, c)
           /\ CallInitiator(activeRooms[c]) = NameOf[t]
           /\ CallRejected(s, NameOf[s], c))
              => \E i \in 1..Len(out') :
                    /\ out'[i].ev = "callRejected"
                    /\ out'[i].data.from = NameOf[s]
                    /\ t \in out'[i].to]_vars

\* C17: a callEnded on a room of the store leaves its call phase idle,
\* its participant list empty and its initiator cleared, and its one
\* emission is the end notice, which carries the name of the ender and
\* reaches every live member of the room.
C17_EndClearsCall ==
    [][\A s \in Sockets, c \in Codes :
          (Has(activeRooms, c) /\ CallEnded(s, c, NameOf[s]))
              => /\ CallPhase(activeRooms'[c]) = "idle"
                 /\ CallParticipants(activeRooms'[c]) = <<>>
                 /\ CallInitiator(activeRooms'[c]) = Null
                 /\ Len(out') = 1
                 /\ out'[1].ev = "callEnded"
                 /\ out'[1].data.from = NameOf[s]
                 /\ MemberConns(c) \subseteq out'[1].to]_vars

\* a callEnded has just reached the two members of a room whose call
\* state it cleared
C17_Witness ==
    \E s \in connected, c \in DOMAIN activeRooms :
        /\ Len(out) = 1
        /\ out[1].ev = "callEnded"
        /\ out[1].data = [from |-> NameOf[s], roomCode |-> c]
        /\ Cardinality(MemberConns(c)) = 2
        /\ out[1].to = MemberConns(c)
        /\ Has(activeRooms[c], "callState")
        /\ activeRooms[c].callState = "idle"
        /\ activeRooms[c].callInitiator = Null
        /\ activeRooms[c].callParticipants = <<>>

\* a room without its call participant list, call phase and initiator
WithoutCall(room) ==
    [f \in DOMAIN room \ {"callParticipants", "callState", "callInitiator"} |-> room[f]]

C19_DisconnectLeavesCalls ==
    [][\A s \in Sockets :
          Disconnect(s)
              => \A c \in DOMAIN activeRooms' :
                    /\ ~Includes(CallParticipants(activeRooms'[c]), NameOf[s])
                    /\ CallInitiator(activeRooms'[c]) # NameOf[s]]_vars

\* C20: after the disconnect of a connection that registered, neither
\* map of the registry has an entry under its socket id.
C20_DisconnectDeregisters ==
    [][\A s \in Sockets :
          (Has(socketToUserMap, s) /\ Disconnect(s))
              => /\ ~Has(socketToUserMap', s)
                 /\ \A i \in 1..Len(userSocketMap') : userSocketMap'[i].key # s]_vars

\* C23: an offer, answer or iceCandidate addressed to the socket id t
\* changes no room, no registry entry and no socket.io room; what it emits
\* reaches no socket but t and carries the id of the sender; a live t
\* other than the sender receives it once, and when t is not connected
\* it reaches nobody.
C23_RelayToTargetOnly ==
    [][\A s, t \in Sockets :
          (\/ Offer(s, t, "sdp")
           \/ Answer(s, t, "sdp")
           \/ IceCandidate(s, t, "candidate"))
              => /\ UNCHANGED <<serverVars, adapter, interestVars, meshVars>>
                 /\ \A i \in 1..Len(out') :
                        /\ out'[i].to \subseteq {t}
                        /\ out'[i].data.from = s
                 /\ (t \in connected /\ t # s)
                        => Len(SelectSeq(out', LAMBDA e : t \in e.to)) = 1
                 /\ t \notin connected => Delivered(out') = <<>>]_vars

\* the live connections registered under the name n
RegisteredAs(n) ==
    {c \in connected : Has(socketToUserMap, c) /\ socketToUserMap[c] = n}

\* C21: getSocketId on a name answers the caller with the socket id of a
\* live connection registered under that name, and with null when there
\* is none.
C21_ResolveRegisteredName ==
    [][\A s \in Sockets, n \in RegisteredNames :
          GetSocketId(s, n)
              => /\ Len(out') = 1
                 /\ out'[1].to = {s}
                 /\ IF RegisteredAs(n) # {}
                    THEN out'[1].data.socketId \in RegisteredAs(n)
                    ELSE out'[1].data.socketId = Null]_vars

\* C22: after register(u) by the socket s the registry holds one entry
\* under s, with the name u, in each of its maps, the entries of the
\* other sockets are as before, and a register that repeats the entry the
\* socket has changes nothing.
C22_RegisterOverwrites ==
    [][\A s \in Sockets, u \in RegisteredNames :
          Register(s, u)
              => /\ DOMAIN socketToUserMap' = DOMAIN socketToUserMap \cup {s}
                 /\ socketToUserMap'[s] = u
                 /\ \A c \in DOMAIN socketToUserMap \ {s} :
                        socketToUserMap'[c] = socketToUserMap[c]
                 /\ SelectSeq(userSocketMap', LAMBDA e : e.key = s) =
                        <<[key |-> s, value |-> u]>>
                 /\ SelectSeq(userSocketMap', LAMBDA e : e.key # s) =
                        SelectSeq(userSocketMap, LAMBDA e : e.key # s)
                 /\ (/\ Has(socketToUserMap, s)
                     /\ socketToUserMap[s] = u
                     /\ Includes(userSocketMap, [key |-> s, value |-> u]))
                        => UNCHANGED regVars]_vars

\* both sockets are registered, the second under the name the first
\* sends at its events, and each has one entry
C22_Witness ==
    /\ connected = Sockets
    /\ socketToUserMap = [s \in Sockets |-> NameOf["s1"]]
    /\ Len(userSocketMap) = 2
    /\ \A i \in 1..2 : userSocketMap[i].value = NameOf["s1"]
    /\ userSocketMap[1].key # userSocketMap[2].key

\* the rooms of setupSocket whose user list has the socket s
RoomsListing(s) == {c \in DOMAIN rooms : s \in ListedIds(c)}

\* C24: in every state each socket is in the user list of at most one
\* room, and a socket whose connection has ended is in none.
C24_AtMostOneRoom ==
    \A s \in Sockets :
        /\ Cardinality(RoomsListing(s)) <= 1
        /\ s \in closed => RoomsListing(s) = {}

\* the sequence a is the beginning of the sequence b
IsPrefix(a, b) == Len(a) <= Len(b) /\ SubSeq(b, 1, Len(a)) = a

\* C25: at every step, the history of each room that is in the store
\* before and after the step begins, after it, with the history it had
\* before it.
C25_HistoryAppendOnly ==
    [][\A c \in DOMAIN activeRooms :
          Has(activeRooms', c)
              => IsPrefix(OrElse(activeRooms[c], "messages", <<>>),
                          OrElse(activeRooms'[c], "messages", <<>>))]_vars

\* the first Limit characters of a payload
FirstLimit(p) == [blob |-> p.blob, len |-> IF p.len > Limit THEN Limit ELSE p.len]

\* C26: a message sent to a room of the store is added to the history
\* and emitted to the room with each inline payload cut to its first
\* Limit characters, which leaves a payload of at most Limit characters
\* as it was sent.
C26_PayloadCutToLimit ==
    [][\A s \in Sockets, m \in PayloadMessages :
          (Has(activeRooms, m.roomCode) /\ SendMessage(s, m))
              => LET cut == [m EXCEPT !.audioBase64 = FirstLimit(@),
                                      !.attachmentBase64 = FirstLimit(@)]
                     history == activeRooms'[m.roomCode].messages
                 IN  /\ Len(history) = Len(OrElse(activeRooms[m.roomCode], "messages", <<>>)) + 1
                     /\ history[Len(history)] = cut
                     /\ Len(out') = 1
                     /\ out'[1].data = cut]_vars

\* what a call event on the code c emits first, if it emits at all, is an
\* event of the call that carries c
EmitsForCode(o, c) ==
    \/ o = <<>>
    \/ /\ o[1].ev \in {"callRequest", "callAccepted", "callRejected", "callEnded",
                        "userJoinedCall", "userLeftCall"}
       /\ o[1].data.roomCode = c

\* a call event of the socket s that names the code c
CallEventOn(s, c) ==
    /\ EmitsForCode(out', c)
    /\ \/ \E p \in ParticipantArgs(NameOf[s]) : CallRequest(s, c, NameOf[s], p)
       \/ CallAccepted(s, NameOf[s], c)
       \/ CallRejected(s, NameOf[s], c)
       \/ CallEnded(s, c, NameOf[s])
       \/ UserJoinedCall(s, NameOf[s], c)
       \/ UserLeftCall(s, NameOf[s], c)

\* the step leaves every room but that of the code c as it was, adds no
\* room under another code, and leaves the members and the history of
\* the room of c as they were
OnlyCallStateOf(c) ==
    /\ DOMAIN activeRooms' \subseteq DOMAIN activeRooms \cup {c}
    /\ \A d \in DOMAIN activeRooms \ {c} :
            Has(activeRooms', d) /\ activeRooms'[d] = activeRooms[d]
    /\ Has(activeRooms, c)
            => /\ Has(activeRooms', c)
               /\ WithoutCall(activeRooms'[c]) = WithoutCall(activeRooms[c])

\* C27: a callRequest, callAccepted, callRejected, callEnded,
\* userJoinedCall or userLeftCall that names the code c changes nothing
\* in the store but the call state of the room of c: a step that changes
\* more is no call event on c.
C27_CallEventsTouchOneRoom ==
    [][\A c \in Codes :
          OnlyCallStateOf(c) \/ \A s \in Sockets : ~CallEventOn(s, c)]_vars

\* a call event on one room has just been handled while another room
\* holds a ringing call
C27_Witness ==
    \E c, d \in DOMAIN activeRooms :
        /\ c # d
        /\ Len(out) >= 1
        /\ out[1].ev \in {"callAccepted", "callEnded"}
        /\ out[1].data.roomCode = c
        /\ PhaseOf(activeRooms, d) = "ringing"
        /\ CallInitiator(activeRooms[d]) # Null

\* the store and the emissions the 'callAccepted' listener leaves when it
\* runs from the store b with nothing in between (server.js:1461-1487)
AcceptedFrom(b, from, roomCode) ==
    LET store == IF Has(b, roomCode)
                 THEN [b EXCEPT ![roomCode] = Accepted(@, from)] ELSE b
        parts == IF Has(b, roomCode) THEN store[roomCode].callParticipants ELSE <<>>
        state == IF Has(b, roomCode)
                 THEN OrElse(store[roomCode], "callState", "connected")
                 ELSE "connected"
    IN  [rooms |-> store,
         out |-> << EmitIn(adapter, roomCode, "callAccepted",
                           [from |-> from, roomCode |-> roomCode,
                            callParticipants |-> parts, callState |-> state]),
                    EmitIn(adapter, roomCode, "userJoinedCall",
                           [username |-> from, roomCode |-> roomCode,
                            callParticipants |-> parts]) >>]

HistoryThenMembers(o, s, history, users, conns) ==
    /\ \A k \in 1..Len(o) : o[k].ev = "roomHistory" => o[k].to = {s}
    /\ \E i, j \in 1..Len(o) :
          /\ i < j
          /\ o[i].ev = "roomHistory"
          /\ o[i].data = history
          /\ o[j].ev \in {"roomUsers", "userJoined"}
          /\ o[j].data.users = users
          /\ conns \cup {s} \subseteq o[j].to

\* C29: a joinRoom on a live room sends the history the room had to the
\* joining connection only, and after it the new member list to every
\* connection of the room, the joining one included (here for the
\* joinRoom of part_001)
C29_HistoryThenMembers ==
    [][\A s \in Sockets, c \in Codes :
          (Has(rooms, c) /\ SetupJoinRoom(s, c, NameOf[s]))
          => HistoryThenMembers(out', s, rooms[c].messages, rooms'[c].users,
                                {rooms'[c].users[i].id : i \in 1..Len(rooms'[c].users)}
                                    \cap connected)]_vars

\* the like set of the stored message FindMessage finds
LikesOf(store, c, id) ==
    OrElse(store[c].messages[FindMessage(store[c].messages, id)], "likes", <<>>)

\* no name is twice in the list
NoDuplicates(seq) == \A i, j \in 1..Len(seq) : seq[i] = seq[j] => i = j

\* C30: a like by n on a stored message adds n to its like set when n is
\* absent, and otherwise takes n out or leaves the set as it is; the like
\* set holds no name twice; and the new like set is emitted to the room
C30_LikeToggles ==
    [][\A s \in Sockets, c \in Codes, id \in MessageIds :
          (/\ Has(activeRooms, c)
           /\ Has(activeRooms[c], "messages")
           /\ FindMessage(activeRooms[c].messages, id) # 0
           /\ LikeInterestMessage(s, c, id, NameOf[s]))
          => LET n == NameOf[s]
                 before == LikesOf(activeRooms, c, id)
                 after == LikesOf(activeRooms', c, id)
             IN  /\ ~Includes(before, n) => after = Append(before, n)
                 /\ Includes(before, n) =>
                        after \in {before, SelectSeq(before, LAMBDA u : u # n)}
                 /\ NoDuplicates(after)
                 /\ out' = <<EmitIn(adapter, c, "interestMessageLiked",
                                    [msgId |-> id, likes |-> after])>>]_vars

\* the room c holds a stored message with that id
StoredIn(c, id) ==
    /\ Has(activeRooms, c)
    /\ Has(activeRooms[c], "messages")
    /\ FindMessage(activeRooms[c].messages, id) # 0

\* C31: after editMessage(R, id, T) on a message stored in the live room
\* R the history holds that message at its place with text T and the
\* edited flag set, its id and sender as they were; on an id the history
\* does not hold the answer is MessageNotFound and nothing changes
C31_EditInPlace ==
    [][\A s \in Sockets, c \in Codes, id \in MessageIds :
          EditMessage(s, c, id, "new") =>
            IF StoredIn(c, id)
            THEN LET i == FindMessage(activeRooms[c].messages, id)
                     old == activeRooms[c].messages[i]
                     new == activeRooms'[c].messages[i]
                 IN  /\ Len(activeRooms'[c].messages) = Len(activeRooms[c].messages)
                     /\ new.text = "new"
                     /\ OrElse(new, "edited", FALSE) = TRUE
                     /\ new.id = old.id
                     /\ new.username = old.username
            ELSE /\ activeRooms' = activeRooms
                 /\ \E k \in 1..Len(out') : out'[k].to = {s}]_vars

\* the sequence without the messages of that id
WithoutId(messages, id) ==
    SelectSeq(messages, LAMBDA m : OrElse(m, "id", Undefined) # id)

\* C32: after deleteMessage(R, id) on a message stored in the live room R
\* the history holds no message of that id, the other messages are in the
\* order they were, and a notice with the id and the sender's name has
\* been emitted to the room
C32_DeleteRemoves ==
    [][\A s \in Sockets, c \in Codes, id \in MessageIds :
          (StoredIn(c, id) /\ DeleteMessage(s, c, id)) =>
            LET i == FindMessage(activeRooms[c].messages, id)
                old == activeRooms[c].messages[i]
            IN  /\ FindMessage(activeRooms'[c].messages, id) = 0
                /\ WithoutId(activeRooms'[c].messages, id)
                       = WithoutId(activeRooms[c].messages, id)
                /\ \E k \in 1..Len(out') :
                      /\ out'[k].to = SocketsIn(adapter, c)
                      /\ out'[k].data.messageId = id
                      /\ out'[k].data.username = old.username]_vars

\* the room of code c is as createRoom stored it: no call listener has
\* given it a call field
FreshRoom(c) ==
    /\ Has(activeRooms, c)
    /\ DOMAIN activeRooms[c] \cap {"callParticipants", "callState", "callInitiator"} = {}

\* C33: a callAccepted, userJoinedCall or userLeftCall on a room fresh
\* from createRoom raises no error, so that later events are still
\* handled: callAccepted leaves the accepter alone in the participant
\* list, userLeftCall leaves the list empty in phase idle
C33_FreshRoomNoError ==
    [][\A s \in Sockets, c \in Codes :
          /\ (FreshRoom(c) /\ CallAccepted(s, NameOf[s], c))
                => /\ running'
                   /\ CallParticipants(activeRooms'[c]) = <<NameOf[s]>>
          /\ (FreshRoom(c) /\ UserJoinedCall(s, NameOf[s], c)) => running'
          /\ (FreshRoom(c) /\ UserLeftCall(s, NameOf[s], c))
                => /\ running'
                   /\ CallParticipants(activeRooms'[c]) = <<>>
                   /\ CallPhase(activeRooms'[c]) = "idle"]_vars

\* C34: a callRequest on a room whose call is ringing or connected leaves
\* the phase, the initiator and the participant list of that call as they
\* were: ringing is entered from idle only
C34_RingingOnlyFromIdle ==
    [][\A s \in Sockets, c \in Codes :
          \A p \in ParticipantArgs(NameOf[s]) :
              (/\ Has(activeRooms, c)
               /\ CallPhase(activeRooms[c]) \in {"ringing", "connected"}
               /\ CallRequest(s, c, NameOf[s], p))
              => /\ CallPhase(activeRooms'[c]) = CallPhase(activeRooms[c])
                 /\ CallInitiator(activeRooms'[c]) = CallInitiator(activeRooms[c])
                 /\ CallParticipants(activeRooms'[c])
                        = CallParticipants(activeRooms[c])]_vars

\* C35: in every state the call participant list of every room holds no
\* display name twice
C35_ParticipantsAreASet ==
    \A c \in DOMAIN activeRooms : NoDuplicates(CallParticipants(activeRooms[c]))

\* the interests a connected socket named in joinInterestRoom for the
\* interest rooms it has not left
InterestsOf(s) ==
    IF s \in connected
    THEN UNION {interestJoins[s][r] : r \in DOMAIN interestJoins[s]}
    ELSE {}

\* C36: in every state, two connected sockets that joined through
\* joinInterestRoom with an interest in common, and have not left, are
\* together in an interest room
C36_SharersTogether ==
    \A s, t \in connected :
        InterestsOf(s) \cap InterestsOf(t) # {}
            => \E r \in InterestRooms : {s, t} \subseteq adapter[r]

\* C37: in every state, every interest of the map points to an interest
\* room with a connected socket in it
C37_MappedRoomsHaveMembers ==
    \A i \in DOMAIN interestToRoomMap :
        adapter[interestToRoomMap[i]] \cap connected # {}

\* C38: after every step, the peer list of every mesh room holds exactly
\* the sockets that sent 'join' for it and are still connected, each
\* once, and no mesh room is stored with an empty list; and the
\* 'user-count' a 'join' emits is the number of those sockets
C38_PeerListIsTheJoinedSet ==
    [][/\ \A room \in DOMAIN meshRooms' :
            /\ meshRooms'[room] # <<>>
            /\ NoDuplicates(meshRooms'[room])
            /\ Elements(meshRooms'[room])
                   = {s \in connected' : Includes(meshJoins'[s], room)}
       /\ \A room \in {"c1"} \cup Sockets :
            {s \in connected' : Includes(meshJoins'[s], room)} # {}
                => Has(meshRooms', room)
       /\ \A s \in Sockets, room \in {"c1"} \cup Sockets :
            MeshJoin(s, room) =>
                out'[3].data.count
                    = Cardinality({x \in connected' : Includes(meshJoins'[x], room)})]_vars

\* C39: a 'signal' of a socket that sent 'join' is forwarded to its target
\* once, however many 'join' events the socket sent, and a 'signal' of a
\* socket that sent none is not forwarded
C39_SignalForwardedOnce ==
    [][\A s, t \in Sockets :
          MeshSignal(s, t, "sdp") =>
              out' = IF meshJoins[s] = <<>>
                     THEN <<>>
                     ELSE <<EmitIn(adapter, t, "signal", [from |-> s, data |-> "sdp"])>>]_vars

\* the call fields the claim expects in an answer about the code c: those
\* stored for a live room, with phase idle and no initiator where no call
\* was ever requested, and phase idle, no initiator and an empty list
\* where no room is live
ReportsCallOf(call, c) ==
    IF Has(activeRooms, c)
    THEN /\ call.callState = CallPhase(activeRooms[c])
         /\ call.callInitiator = IF Has(activeRooms[c], "callInitiator")
                                 THEN activeRooms[c].callInitiator
                                 ELSE Undefined
         /\ call.callParticipants = CallParticipants(activeRooms[c])
    ELSE /\ call.callState = "idle"
         /\ call.callInitiator = Null
         /\ call.callParticipants = <<>>

\* C40: getCallState and getRoomParticipants change nothing of the room
\* store and of the socket.io rooms and make one emission, to the asking
\* socket alone, which reports the stored phase, initiator, participants
\* and members of a live room and idle, no initiator and empty lists for
\* a code without room
C40_QueriesReadOnly ==
    [][\A s \in Sockets, c \in Codes :
          (GetCallState(s, c) \/ GetRoomParticipants(s, c))
          => /\ UNCHANGED <<activeRooms, adapter, regVars>>
             /\ Len(out') = 1
             /\ out'[1].to = {s}
             /\ ReportsCallOf(out'[1].data, c)
             /\ GetCallState(s, c) => out'[1].data.roomCode = c
             /\ GetRoomParticipants(s, c) =>
                    out'[1].data.participants
                        = IF Has(activeRooms, c) THEN activeRooms[c].users ELSE <<>>]_vars

\* C40 witness: a socket has just been told the state of a connected call
\* of a room the other socket is in too, and nobody else was told
C40_Witness ==
    \E s \in connected, c \in DOMAIN activeRooms :
        /\ Len(out) = 1
        /\ out[1].ev = "callState"
        /\ out[1].to = {s}
        /\ out[1].data.callState = "connected"
        /\ CallPhase(activeRooms[c]) = "connected"
        /\ adapter[c] = Sockets

====
